---- MODULE Spec2Model ----
(***************************************************************************)
(* Resume question-answering pipeline of resume-qa-chatbot:                *)
(*   PDFProcessor          (app/utils/pdf_processor.py)                    *)
(*   ChromaDBService       (app/services/chromadb_service.py)              *)
(*   ResumeVectorService   (app/services/resume_vector_service.py)         *)
(*   LLMService            (app/services/llm_service.py)                   *)
(* Texts are sequences of one-character strings.                           *)
(***************************************************************************)
EXTENDS Integers, Sequences, FiniteSets, TLC

VARIABLES
    \* PDFProcessor.create_chunks_with_overlap, one activation
    c_text, c_size, c_overlap, c_start, c_index, c_chunks, c_pc,
    \* the persistent ChromaDB client: whether the collection "resume_vectors"
    \* exists, and its entries in insertion order
    store,
    \* the last call made on ResumeVectorService: its arguments and the fault
    \* the environment injected, the value it returned, and the steps it took
    call, result, trace,
    \* the HTTP response of the resume endpoint that served the last request
    \* (status 0: the caller was a script, or nothing was requested)
    http,
    \* the last activation of answer_with_entity_context: what its RAG call
    \* returned, the NER environment, and what the extraction contributed
    entity_call,
    \* the successful process_resume_pdf runs since the collection was last
    \* deleted (history, for the additive-store claim)
    runs,
    \* the module-level LLMService instance of llm_service.py
    llm_service,
    \* the last activation of LLMService.generate_answer on the current
    \* instance: its arguments, the backend's outcome and what came back
    gen,
    \* the last activation of the constructor LLMService(backend): its
    \* argument, what the environment offered, and whether it raised
    ctor

chunkVars == <<c_text, c_size, c_overlap, c_start, c_index, c_chunks, c_pc>>
serviceVars == <<store, call, result, trace, runs, http, entity_call>>
llmVars == <<llm_service, gen, ctor>>

vars == <<chunkVars, serviceVars, llmVars>>

(***************************************************************************)
(* Bounds of the model.                                                    *)
(***************************************************************************)
MaxLen == 5          \* longest text handed to the chunker
MaxChunk == 3        \* largest chunk_size / overlap argument
MaxChunkCount == 8   \* iterations of the chunking loop that are followed
MaxStore == 4        \* entries the collection is followed up to
MaxResults == 4      \* largest n_results argument

Min(a, b) == IF a <= b THEN a ELSE b
Max(a, b) == IF a >= b THEN a ELSE b

Chars == {"a", "b"}

RECURSIVE TextsOfLen(_)
TextsOfLen(n) ==
    IF n = 0 THEN {<<>>}
    ELSE {Append(t, ch) : t \in TextsOfLen(n - 1), ch \in Chars}

Texts == UNION {TextsOfLen(n) : n \in 0..MaxLen}

(***************************************************************************)
(* Python slicing text[a:b] for integer a, b (negative indexes count from  *)
(* the end, out-of-range indexes are clamped).                             *)
(***************************************************************************)
PyIndex(i, len) == IF i < 0 THEN Max(i + len, 0) ELSE Min(i, len)

PySlice(t, a, b) ==
    LET lo == PyIndex(a, Len(t))
        hi == PyIndex(b, Len(t))
    IN  IF lo >= hi THEN <<>> ELSE SubSeq(t, lo + 1, hi)

(***************************************************************************)
(* PDFProcessor.create_chunks_with_overlap                                 *)
(***************************************************************************)
\* a slip of the early return: end_pos one short of len(text)
WholeTextChunkShort(t) ==
    [text |-> t, chunk_index |-> 0, start_pos |-> 0, end_pos |-> Len(t) - 1,
     chunk_size |-> Len(t), overlap_chars |-> 0]

\* the single chunk returned when len(text) <= chunk_size
WholeTextChunk(t) ==
    [text |-> t, chunk_index |-> 0, start_pos |-> 0, end_pos |-> Len(t),
     chunk_size |-> Len(t), overlap_chars |-> 0]

\* end = min(start + chunk_size, len(text))
ChunkEnd(t, cs, st) == Min(st + cs, Len(t))

\* a slip of the slice bound: text[start:end + 1]
ChunkRecordLong(t, cs, ov, st, idx) ==
    LET end == ChunkEnd(t, cs, st)
        chunk_text == PySlice(t, st, end + 1)
    IN  [text |-> chunk_text, chunk_index |-> idx, start_pos |-> st,
         end_pos |-> end, chunk_size |-> Len(chunk_text),
         overlap_chars |-> IF idx > 0 THEN ov ELSE 0,
         total_text_length |-> Len(t)]

\* the dictionary appended by one iteration of the loop
ChunkRecord(t, cs, ov, st, idx) ==
    LET end == ChunkEnd(t, cs, st)
        chunk_text == PySlice(t, st, end)
    IN  [text |-> chunk_text, chunk_index |-> idx, start_pos |-> st,
         end_pos |-> end, chunk_size |-> Len(chunk_text),
         overlap_chars |-> IF idx > 0 THEN ov ELSE 0,
         total_text_length |-> Len(t)]

\* the advance without the overlap: start = end
NextStartNoOverlap(t, cs, ov, st) == ChunkEnd(t, cs, st)

\* the advance one character too far: start = end - overlap + 1
NextStartGap(t, cs, ov, st) == ChunkEnd(t, cs, st) - ov + 1

\* start = end - overlap
NextStart(t, cs, ov, st) == ChunkEnd(t, cs, st) - ov

\* entry of the function: the early return, or the loop's initial values
ChunkEntry ==
    /\ c_pc = "entry"
    /\ IF Len(c_text) <= c_size
       THEN /\ c_chunks' = <<WholeTextChunk(c_text)>>
            /\ c_pc' = "done"
       ELSE /\ c_chunks' = <<>>
            /\ c_pc' = "loop"
    /\ c_start' = 0
    /\ c_index' = 0
    /\ UNCHANGED <<c_text, c_size, c_overlap>>
    /\ UNCHANGED <<serviceVars, llmVars>>

\* one iteration of `while start < len(text)`, ending in break or in the advance
ChunkIterate ==
    /\ c_pc = "loop"
    /\ c_start < Len(c_text)
    /\ Len(c_chunks) < MaxChunkCount
    /\ c_chunks' = Append(c_chunks,
                          ChunkRecord(c_text, c_size, c_overlap, c_start, c_index))
    /\ IF ChunkEnd(c_text, c_size, c_start) >= Len(c_text)
       THEN /\ c_pc' = "done"
            /\ UNCHANGED <<c_start, c_index>>
       ELSE /\ c_start' = NextStart(c_text, c_size, c_overlap, c_start)
            /\ c_index' = c_index + 1
            /\ c_pc' = "loop"
    /\ UNCHANGED <<c_text, c_size, c_overlap>>
    /\ UNCHANGED <<serviceVars, llmVars>>

\* the loop condition is false: return chunks
ChunkLoopExit ==
    /\ c_pc = "loop"
    /\ ~(c_start < Len(c_text))
    /\ c_pc' = "done"
    /\ UNCHANGED <<c_text, c_size, c_overlap, c_start, c_index, c_chunks>>
    /\ UNCHANGED <<serviceVars, llmVars>>

\* the whole function, for the callers that use its result: the chunks, and
\* whether the loop came to its end within the iterations that are followed
RECURSIVE ChunkLoop(_, _, _, _, _, _)
ChunkLoop(t, cs, ov, st, idx, acc) ==
    IF ~(st < Len(t)) THEN [returned |-> TRUE, chunks |-> acc]
    ELSE IF Len(acc) >= MaxChunkCount THEN [returned |-> FALSE, chunks |-> acc]
    ELSE LET acc2 == Append(acc, ChunkRecord(t, cs, ov, st, idx))
         IN  IF ChunkEnd(t, cs, st) >= Len(t)
             THEN [returned |-> TRUE, chunks |-> acc2]
             ELSE ChunkLoop(t, cs, ov, NextStart(t, cs, ov, st), idx + 1, acc2)

create_chunks_with_overlap(t, cs, ov) ==
    IF Len(t) <= cs THEN [returned |-> TRUE, chunks |-> <<WholeTextChunk(t)>>]
    ELSE ChunkLoop(t, cs, ov, 0, 0, <<>>)

(***************************************************************************)
(* The files of the data directory, as pypdf reads them: the text of each  *)
(* page (extract_text_from_pdf appends "\n" to every page).                *)
(***************************************************************************)
PdfFiles == {"resume.pdf", "short.pdf", "corrupt.pdf", "missing.pdf"}

\* os.path.exists(pdf_path)
FileExists(pdf) == pdf # "missing.pdf"

\* pypdf.PdfReader raises on a file that is no PDF
ReaderRaises(pdf) == pdf = "corrupt.pdf"

PageTexts(pdf) ==
    IF pdf = "resume.pdf"
    THEN << <<"a", "b", " ", " ", "a", "\n">>, <<"\n", "b", "b">> >>
    ELSE IF pdf = "short.pdf"
    THEN << <<" ", "b", " ", "a">> >>
    ELSE << >>

RECURSIVE JoinPages(_)
JoinPages(pages) ==
    IF pages = <<>> THEN <<>>
    ELSE Head(pages) \o <<"\n">> \o JoinPages(Tail(pages))

(***************************************************************************)
(* PDFProcessor.clean_text: every run of whitespace becomes one space      *)
(* (re.sub(r'\s+', ' ')), then strip().                                    *)
(***************************************************************************)
IsSpace(ch) == ch \in {" ", "\n"}

RECURSIVE CollapseSpaces(_, _)
CollapseSpaces(t, acc) ==
    IF t = <<>> THEN acc
    ELSE IF IsSpace(Head(t))
         THEN IF acc # <<>> /\ acc[Len(acc)] = " "
              THEN CollapseSpaces(Tail(t), acc)
              ELSE CollapseSpaces(Tail(t), Append(acc, " "))
         ELSE CollapseSpaces(Tail(t), Append(acc, Head(t)))

RECURSIVE LStrip(_)
LStrip(t) == IF t # <<>> /\ IsSpace(Head(t)) THEN LStrip(Tail(t)) ELSE t

RECURSIVE RStrip(_)
RStrip(t) ==
    IF t # <<>> /\ IsSpace(t[Len(t)]) THEN RStrip(SubSeq(t, 1, Len(t) - 1)) ELSE t

clean_text(t) == RStrip(LStrip(CollapseSpaces(t, <<>>)))

\* PDFProcessor.extract_text_from_pdf: raises, or returns the cleaned text
extract_text_from_pdf(pdf) ==
    IF ~FileExists(pdf)
    THEN [raised |-> TRUE, error |-> "PDF file not found", text |-> <<>>]
    ELSE IF ReaderRaises(pdf)
    THEN [raised |-> TRUE, error |-> "reader error", text |-> <<>>]
    ELSE [raised |-> FALSE, error |-> "", text |-> clean_text(JoinPages(PageTexts(pdf)))]

\* the metadata list built by process_pdf_to_chunks
ChunkMetadata(chunks, pdf) ==
    [i \in 1..Len(chunks) |->
        [chunk_index |-> chunks[i].chunk_index,
         start_pos |-> chunks[i].start_pos,
         end_pos |-> chunks[i].end_pos,
         chunk_size |-> chunks[i].chunk_size,
         overlap_chars |-> chunks[i].overlap_chars,
         source_file |-> pdf,
         total_chunks |-> Len(chunks)]]

(***************************************************************************)
(* PDFProcessor.process_pdf_to_chunks.  chunkRaises: the chunker raised    *)
(* (a chunk_size or overlap that is no number).  returned is FALSE when    *)
(* the chunking loop does not come to its end.                             *)
(***************************************************************************)
process_pdf_to_chunks(pdf, cs, ov, chunkRaises) ==
    LET ex == extract_text_from_pdf(pdf)
        cr == create_chunks_with_overlap(ex.text, cs, ov)
        none == [raised |-> TRUE, returned |-> TRUE, error |-> ex.error,
                 steps |-> <<"extract">>, original_text |-> <<>>,
                 chunk_texts |-> <<>>, chunk_metadata |-> <<>>, total_chunks |-> 0]
    IN  IF ex.raised THEN none
        ELSE IF chunkRaises
        THEN [none EXCEPT !.error = "chunking error", !.steps = <<"extract", "chunk">>]
        ELSE [raised |-> FALSE, returned |-> cr.returned, error |-> "",
              steps |-> <<"extract", "chunk">>,
              original_text |-> ex.text,
              chunk_texts |-> [i \in 1..Len(cr.chunks) |-> cr.chunks[i].text],
              chunk_metadata |-> ChunkMetadata(cr.chunks, pdf),
              total_chunks |-> Len(cr.chunks)]

(***************************************************************************)
(* ChromaDBService.  A fault <<site, operation>> is the one client call of *)
(* the handler that the environment makes raise; NoFault is none.          *)
(***************************************************************************)
NoFault == <<"none", "none">>

EmptyStore == [exists |-> FALSE, docs |-> <<>>]

\* get_or_create_resume_collection: get_collection, and create_collection when
\* that raises ValueError (no such collection); any other exception propagates
get_or_create_resume_collection(st, fault, site) ==
    IF fault = <<site, "get">> THEN [raised |-> TRUE, store |-> st]
    ELSE IF st.exists THEN [raised |-> FALSE, store |-> st]
    ELSE IF fault = <<site, "create">> THEN [raised |-> TRUE, store |-> st]
    ELSE [raised |-> FALSE, store |-> [exists |-> TRUE, docs |-> <<>>]]

\* ids = [str(uuid.uuid4()) for _ in chunks]: n ids no entry of the store has
FreshIds(st, n) ==
    LET used == {st.docs[i].id : i \in 1..Len(st.docs)}
        base == IF used = {} THEN 0
                ELSE 1 + CHOOSE m \in used : \A k \in used : k <= m
    IN  [i \in 1..n |-> base + i - 1]

NewDocs(st, chunks, metadata) ==
    LET ids == FreshIds(st, Len(chunks))
    IN  [i \in 1..Len(chunks) |->
            [id |-> ids[i], document |-> chunks[i], metadata |-> metadata[i]]]

\* a store keyed by content: adding replaces what the collection held
add_text_chunks_replacing(st, chunks, metadata, fault) ==
    [ok |-> TRUE,
     store |-> [exists |-> TRUE, docs |-> NewDocs(EmptyStore, chunks, metadata)]]

\* add_text_chunks: True when the chunks were added, False on any exception
add_text_chunks(st, chunks, metadata, fault) ==
    LET g == get_or_create_resume_collection(st, fault, "add")
    IN  IF g.raised THEN [ok |-> FALSE, store |-> g.store]
        ELSE IF fault = <<"add", "add">> THEN [ok |-> FALSE, store |-> g.store]
        ELSE [ok |-> TRUE,
              store |-> [g.store EXCEPT
                            !.docs = @ \o NewDocs(g.store, chunks, metadata)]]

\* get_collection_stats: total_chunks is collection.count(), 0 on any exception
get_collection_stats(st, fault) ==
    LET g == get_or_create_resume_collection(st, fault, "stats")
    IN  IF g.raised THEN [failed |-> TRUE, total_chunks |-> 0, store |-> g.store]
        ELSE IF fault = <<"stats", "count">>
        THEN [failed |-> TRUE, total_chunks |-> 0, store |-> g.store]
        ELSE [failed |-> FALSE, total_chunks |-> Len(g.store.docs), store |-> g.store]

\* clearing that only makes sure the collection exists
clear_collection_keeping(st, fault) ==
    LET g == get_or_create_resume_collection(st, fault, "clear")
    IN  [ok |-> ~g.raised, deleted |-> FALSE, store |-> g.store]

\* clear_collection: delete_collection (ValueError: there was none), then
\* get_or_create; False on any other exception
clear_collection(st, fault) ==
    IF fault = <<"clear", "delete">>
    THEN [ok |-> FALSE, deleted |-> FALSE, store |-> st]
    ELSE LET g == get_or_create_resume_collection(EmptyStore, fault, "clear")
         IN  [ok |-> ~g.raised, deleted |-> TRUE, store |-> g.store]

(***************************************************************************)
(* ResumeVectorService: the write path.  Every operation gives the store   *)
(* it leaves, the dictionary it returns and the steps it took.             *)
(***************************************************************************)
NoResult ==
    [success |-> FALSE, error |-> "", message |-> "",
     total_chunks |-> -1, stats_total |-> -1, sample_chunk |-> <<>>,
     documents |-> <<>>, distances |-> <<>>, count |-> -1,
     answer |-> <<>>, llm_backend |-> "", chunks_used |-> -1,
     entities_used |-> <<>>, enhancement |-> "",
     \* the keys of the dictionary, where answer_question_with_llm succeeded
     keys |-> {}]

\* a handler that empties the collection when it fails
ProcessFailureClearing(st, e, tr) ==
    [store |-> [exists |-> TRUE, docs |-> <<>>],
     result |-> [NoResult EXCEPT !.error = e,
                    !.message = "Failed to process resume and create vectors"],
     trace |-> tr]

\* process_resume_pdf's `except Exception as e` handler
ProcessFailure(st, e, tr) ==
    [store |-> st,
     result |-> [NoResult EXCEPT !.error = e,
                    !.message = "Failed to process resume and create vectors"],
     trace |-> tr]

process_resume_pdf(st, pdf, cs, ov, fault) ==
    IF ~FileExists(pdf)
    THEN ProcessFailure(st, "Resume PDF not found", <<"exists">>)
    ELSE
      LET pr == process_pdf_to_chunks(pdf, cs, ov, fault = <<"chunk", "raise">>)
          add == add_text_chunks(st, pr.chunk_texts, pr.chunk_metadata, fault)
          stats == get_collection_stats(add.store, fault)
      IN  IF pr.raised
          THEN ProcessFailure(st, pr.error, <<"exists">> \o pr.steps)
          ELSE IF ~add.ok
          THEN ProcessFailure(add.store, "Failed to store chunks in ChromaDB",
                              <<"exists">> \o pr.steps \o <<"add">>)
          ELSE [store |-> stats.store,
                result |-> [NoResult EXCEPT
                    !.success = TRUE,
                    !.message = "Resume processed and vectors created successfully",
                    !.total_chunks = Len(pr.chunk_texts),
                    !.stats_total = stats.total_chunks,
                    !.sample_chunk = IF pr.chunk_texts # <<>>
                                     THEN pr.chunk_texts[1] ELSE <<>>],
                trace |-> <<"exists">> \o pr.steps \o <<"add", "stats">>]

\* get_resume_stats
get_resume_stats(st, fault) ==
    LET stats == get_collection_stats(st, fault)
    IN  [store |-> stats.store,
         result |-> [NoResult EXCEPT !.success = TRUE,
                        !.stats_total = stats.total_chunks],
         trace |-> <<"stats">>]

\* clear_resume_vectors
clear_resume_vectors(st, fault) ==
    LET c == clear_collection(st, fault)
    IN  [store |-> c.store,
         deleted |-> c.deleted,
         result |-> IF c.ok
                    THEN [NoResult EXCEPT !.success = TRUE,
                             !.message = "Resume vectors cleared successfully"]
                    ELSE [NoResult EXCEPT
                             !.error = "Failed to clear vectors",
                             !.message = "Failed to clear resume vectors"],
         trace |-> <<"clear">>]

\* a reprocess that goes on to the PDF whatever the clearing returned
reprocess_resume_regardless(st, pdf, cs, ov, fault) ==
    LET c == clear_resume_vectors(st, fault)
        p == process_resume_pdf(c.store, pdf, cs, ov, fault)
    IN  [store |-> p.store, deleted |-> c.deleted,
         result |-> p.result, trace |-> c.trace \o p.trace]

\* reprocess_resume: clear, and process when the clearing succeeded
reprocess_resume(st, pdf, cs, ov, fault) ==
    LET c == clear_resume_vectors(st, fault)
        p == process_resume_pdf(c.store, pdf, cs, ov, fault)
    IN  IF ~c.result.success
        THEN [store |-> c.store, deleted |-> c.deleted,
              result |-> c.result, trace |-> c.trace]
        ELSE [store |-> p.store, deleted |-> c.deleted,
              result |-> p.result, trace |-> c.trace \o p.trace]

(***************************************************************************)
(* Strings of the program, character by character.                         *)
(***************************************************************************)
Str_Context == <<"C", "o", "n", "t", "e", "x", "t", " ">>
Str_ColonSpace == <<":", " ">>
Str_BasedOnResume == <<"B", "a", "s", "e", "d", " ", "o", "n", " ", "t", "h", "e", " ", "r", "e", "s", "u", "m", "e", ":", " ">>
Str_BasedOnAvailable == <<"B", "a", "s", "e", "d", " ", "o", "n", " ", "t", "h", "e", " ", "a", "v", "a", "i", "l", "a", "b", "l", "e", " ", "i", "n", "f", "o", "r", "m", "a", "t", "i", "o", "n", ":", " ">>
Str_Ellipsis == <<".", ".", ".">>
Str_TechnicalSkills == <<"T", "e", "c", "h", "n", "i", "c", "a", "l", " ", "s", "k", "i", "l", "l", "s", " ", "i", "n", "c", "l", "u", "d", "e", ":", " ">>
Str_WorkExperience == <<"W", "o", "r", "k", " ", "e", "x", "p", "e", "r", "i", "e", "n", "c", "e", ":", " ">>
Str_Educational == <<"E", "d", "u", "c", "a", "t", "i", "o", "n", "a", "l", " ", "b", "a", "c", "k", "g", "r", "o", "u", "n", "d", ":", " ">>
Str_ContactInfo == <<"C", "o", "n", "t", "a", "c", "t", " ", "i", "n", "f", "o", "r", "m", "a", "t", "i", "o", "n", ":", " ">>

DigitChars == <<"0", "1", "2", "3", "4", "5", "6", "7", "8", "9">>

\* str(n) for n >= 0
RECURSIVE IntToStr(_)
IntToStr(n) ==
    IF n < 10 THEN <<DigitChars[n + 1]>>
    ELSE IntToStr(n \div 10) \o <<DigitChars[(n % 10) + 1]>>

\* str.lower() on the characters of the model
LowerChar(ch) == IF ch = "A" THEN "a" ELSE IF ch = "B" THEN "b"
                 ELSE IF ch = "C" THEN "c" ELSE ch

Lower(t) == [i \in 1..Len(t) |-> LowerChar(t[i])]

\* str.split(sep) on one separator character: the pieces, empty ones
\* included (one step per piece: up to the next separator)
RECURSIVE SplitOn(_, _, _, _)
SplitOn(t, sep, cur, acc) ==
    IF \A i \in 1..Len(t) : t[i] # sep THEN Append(acc, cur \o t)
    ELSE LET k == CHOOSE i \in 1..Len(t) :
                      t[i] = sep /\ \A j \in 1..(i - 1) : t[j] # sep
         IN  SplitOn(SubSeq(t, k + 1, Len(t)), sep, <<>>,
                     Append(acc, cur \o SubSeq(t, 1, k - 1)))

SplitLines(t) == SplitOn(t, "\n", <<>>, <<>>)

\* str.split(): the maximal runs of non-whitespace characters
RECURSIVE SplitWords(_, _, _)
SplitWords(t, cur, acc) ==
    IF t = <<>> THEN (IF cur = <<>> THEN acc ELSE Append(acc, cur))
    ELSE IF IsSpace(Head(t))
         THEN SplitWords(Tail(t), <<>>, IF cur = <<>> THEN acc ELSE Append(acc, cur))
         ELSE SplitWords(Tail(t), Append(cur, Head(t)), acc)

Words(t) == SplitWords(t, <<>>, <<>>)

Strip(t) == RStrip(LStrip(t))

\* sep.join(parts)
RECURSIVE Join(_, _)
Join(parts, sep) ==
    IF parts = <<>> THEN <<>>
    ELSE IF Len(parts) = 1 THEN parts[1]
    ELSE parts[1] \o sep \o Join(Tail(parts), sep)

\* `sub in t` for strings
Contains(t, sub) ==
    \E i \in 0..(Len(t) - Len(sub)) : SubSeq(t, i + 1, i + Len(sub)) = sub

(***************************************************************************)
(* The embedding model and ChromaDB's query, which the program consumes    *)
(* as they are: a text is embedded as its letter counts, the distance is   *)
(* the squared L2 distance, and query returns the n_results nearest        *)
(* entries, nearest first.                                                 *)
(***************************************************************************)
CountChar(t, ch) == Cardinality({i \in 1..Len(t) : t[i] = ch})

Embedding(t) == <<CountChar(Lower(t), "a"), CountChar(Lower(t), "b")>>

Distance(q, t) ==
    LET SquaredL2(e, f) ==
            (e[1] - f[1]) * (e[1] - f[1]) + (e[2] - f[2]) * (e[2] - f[2])
    IN  SquaredL2(Embedding(q), Embedding(t))

\* the entries of docs nearest first, entries at the same distance in
\* insertion order
NearestFirst(docs, q) ==
    LET Ranked(keyed) ==
            [k \in 1..Len(docs) |->
                docs[(CHOOSE p \in keyed :
                        Cardinality({r \in keyed :
                            \/ r[1] < p[1]
                            \/ r[1] = p[1] /\ r[2] < p[2]}) = k - 1)[2]]]
    IN  Ranked({<<Distance(q, docs[i].document), i>> : i \in 1..Len(docs)})

\* collection.query(query_texts=[query], n_results=n_results, include=[...]);
\* it raises for n_results <= 0
collection_query(st, q, n) ==
    LET First(ranked, k) ==
            [documents |-> [i \in 1..k |-> ranked[i].document],
             metadatas |-> [i \in 1..k |-> ranked[i].metadata],
             distances |-> [i \in 1..k |-> Distance(q, ranked[i].document)]]
    IN  First(NearestFirst(st.docs, q), Min(n, Len(st.docs)))

EmptySearch(st) ==
    [store |-> st, failed |-> TRUE,
     documents |-> <<>>, metadatas |-> <<>>, distances |-> <<>>, count |-> 0]

\* a wrapper that hands the distances back in the opposite order
search_similar_chunks_misaligned(st, q, n, fault) ==
    LET g == get_or_create_resume_collection(st, fault, "search")
        r == collection_query(g.store, q, n)
    IN  IF g.raised \/ fault = <<"search", "query">> \/ n <= 0
        THEN EmptySearch(g.store)
        ELSE [store |-> g.store, failed |-> FALSE,
              documents |-> r.documents, metadatas |-> r.metadatas,
              distances |-> [i \in 1..Len(r.distances) |->
                                r.distances[Len(r.distances) + 1 - i]],
              count |-> Len(r.documents)]

\* a wrapper that ignores n_results
search_similar_chunks_all(st, q, n, fault) ==
    LET g == get_or_create_resume_collection(st, fault, "search")
        r == collection_query(g.store, q, Len(g.store.docs))
    IN  IF g.raised \/ fault = <<"search", "query">> \/ n <= 0
        THEN EmptySearch(g.store)
        ELSE [store |-> g.store, failed |-> FALSE,
              documents |-> r.documents, metadatas |-> r.metadatas,
              distances |-> r.distances, count |-> Len(r.documents)]

\* ChromaDBService.search_similar_chunks: the query's first (only) result
\* list, or the empty result on any exception
search_similar_chunks(st, q, n, fault) ==
    LET Hits(g, r) ==
            [store |-> g.store, failed |-> FALSE,
             documents |-> r.documents, metadatas |-> r.metadatas,
             distances |-> r.distances, count |-> Len(r.documents)]
        Query(g) ==
            IF g.raised \/ fault = <<"search", "query">> \/ n <= 0
            THEN EmptySearch(g.store)
            ELSE Hits(g, collection_query(g.store, q, n))
    IN  Query(get_or_create_resume_collection(st, fault, "search"))

\* ResumeVectorService.search_resume_content
search_resume_content(st, q, n, fault) ==
    LET Found(r) ==
            [store |-> r.store,
             result |-> [NoResult EXCEPT !.success = TRUE,
                            !.documents = r.documents, !.distances = r.distances,
                            !.count = r.count,
                            !.message = "Found count relevant chunks"],
             trace |-> <<"search">>]
    IN  Found(search_similar_chunks(st, q, n, fault))

(***************************************************************************)
(* LLMService.  The service object is its backend name and whether the     *)
(* Hugging Face model and the OpenAI client were set up; backend "unset"   *)
(* is the module's `llm_service = None`.                                   *)
(***************************************************************************)
NoLlm == [backend |-> "unset", model_loaded |-> FALSE, has_client |-> FALSE]

\* what the environment offers when a service is constructed
LlmEnvs == [ollama_up : BOOLEAN, hf_loads : BOOLEAN, has_key : BOOLEAN]

\* an environment that offers nothing
NoEnv == [ollama_up |-> FALSE, hf_loads |-> FALSE, has_key |-> FALSE]

\* generate_answer has not been called
NoGen ==
    [llm |-> NoLlm, question |-> <<>>, context |-> <<>>, outcome |-> "none",
     raised |-> FALSE, answer |-> <<>>]

\* no LLMService has been constructed
NoCtor == [backend |-> "", env |-> NoEnv, raised |-> FALSE]

\* an _auto_initialize that tries Hugging Face before Ollama
auto_initialize_hf_first(env) ==
    IF env.hf_loads
    THEN [backend |-> "huggingface", model_loaded |-> TRUE, has_client |-> FALSE]
    ELSE IF env.ollama_up
    THEN [backend |-> "ollama", model_loaded |-> FALSE, has_client |-> FALSE]
    ELSE [backend |-> "fallback", model_loaded |-> FALSE, has_client |-> FALSE]

\* _auto_initialize: Ollama if it answers, else Hugging Face if it loads,
\* else the fallback mode
auto_initialize(env) ==
    IF env.ollama_up
    THEN [backend |-> "ollama", model_loaded |-> FALSE, has_client |-> FALSE]
    ELSE IF env.hf_loads
    THEN [backend |-> "huggingface", model_loaded |-> TRUE, has_client |-> FALSE]
    ELSE [backend |-> "fallback", model_loaded |-> FALSE, has_client |-> FALSE]

\* _initialize_backend: raises when the named backend cannot be set up
initialize_backend(backend, env) ==
    LET obj == [backend |-> backend, model_loaded |-> FALSE, has_client |-> FALSE]
    IN  IF backend = "ollama"
        THEN [raised |-> ~env.ollama_up, llm |-> obj]
        ELSE IF backend = "huggingface"
        THEN [raised |-> ~env.hf_loads, llm |-> [obj EXCEPT !.model_loaded = TRUE]]
        ELSE IF backend = "openai"
        THEN [raised |-> ~env.has_key, llm |-> [obj EXCEPT !.has_client = TRUE]]
        ELSE [raised |-> FALSE, llm |-> obj]

\* LLMService.__init__(backend)
LLMService(backend, env) ==
    IF backend = "auto"
    THEN [raised |-> FALSE, llm |-> auto_initialize(env)]
    ELSE initialize_backend(backend, env)

\* get_llm_service(): the global instance, constructed in auto mode when None
get_llm_service(llm, env) ==
    IF llm.backend = "unset" THEN LLMService("auto", env).llm ELSE llm

\* the text a backend generates, stripped (the model is opaque)
LlmText == <<"L", "L", "M">>

\* what a function without a return statement gives its caller
PyNone == <<"None">>

\* the number of context characters the fallback quotes
FallbackContextChars == 200

\* the number of matching lines the fallback keeps
FallbackMaxLines == 3

\* any(word in line_words for word in question_words)
SharesWord(question_words, line_words) ==
    \E w \in 1..Len(question_words) :
        \E v \in 1..Len(line_words) : question_words[w] = line_words[v]

\* the loop of _generate_fallback: the stripped lines that share a word with
\* the question, in context order
RECURSIVE RelevantLines(_, _)
RelevantLines(lines, question_words) ==
    IF lines = <<>> THEN <<>>
    ELSE (IF SharesWord(question_words, Words(Lower(Head(lines))))
          THEN <<Strip(Head(lines))>> ELSE <<>>)
            \o RelevantLines(Tail(lines), question_words)

\* return statements that quote every matching line
FallbackTextAll(relevant_lines, context) ==
    IF relevant_lines # <<>>
    THEN Str_BasedOnResume \o Join(relevant_lines, <<" ">>)
    ELSE Str_BasedOnAvailable
            \o SubSeq(context, 1, Min(FallbackContextChars, Len(context)))
            \o Str_Ellipsis

\* the return statements of _generate_fallback
FallbackText(relevant_lines, context) ==
    IF relevant_lines # <<>>
    THEN Str_BasedOnResume
            \o Join(SubSeq(relevant_lines, 1,
                           Min(FallbackMaxLines, Len(relevant_lines))), <<" ">>)
    ELSE Str_BasedOnAvailable
            \o SubSeq(context, 1, Min(FallbackContextChars, Len(context)))
            \o Str_Ellipsis

\* _generate_fallback
generate_fallback(question, context) ==
    FallbackText(RelevantLines(SplitLines(context), Words(Lower(question))),
                 context)

\* an Ollama client that returns nothing when the status is not 200
generate_ollama_no_fallback(question, context, outcome) ==
    IF outcome = "ok" THEN [raised |-> FALSE, answer |-> LlmText]
    ELSE IF outcome = "empty" THEN [raised |-> FALSE, answer |-> <<>>]
    ELSE IF outcome = "non200" THEN [raised |-> FALSE, answer |-> PyNone]
    ELSE [raised |-> FALSE, answer |-> generate_fallback(question, context)]

\* _generate_ollama: the response text on status 200; the fallback when the
\* request raises (caught and logged) or the status is not 200
generate_ollama(question, context, outcome) ==
    IF outcome = "ok" THEN [raised |-> FALSE, answer |-> LlmText]
    ELSE IF outcome = "empty" THEN [raised |-> FALSE, answer |-> <<>>]
    ELSE [raised |-> FALSE, answer |-> generate_fallback(question, context)]

\* _generate_huggingface: the fallback when no model is loaded, when
\* generation raises and when the decoded response is blank
generate_huggingface(llm, question, context, outcome) ==
    IF ~llm.model_loaded \/ outcome # "ok"
    THEN [raised |-> FALSE, answer |-> generate_fallback(question, context)]
    ELSE [raised |-> FALSE, answer |-> LlmText]

\* _generate_openai: the fallback on any exception, the missing client
\* attribute included
generate_openai(llm, question, context, outcome) ==
    IF ~llm.has_client \/ outcome # "ok"
    THEN [raised |-> FALSE, answer |-> generate_fallback(question, context)]
    ELSE [raised |-> FALSE, answer |-> LlmText]

\* generate_answer's `except Exception`: the fallback
CatchGenerate(r, question, context) ==
    IF r.raised
    THEN [raised |-> FALSE, answer |-> generate_fallback(question, context)]
    ELSE r

\* generate_answer: dispatch on the backend; any exception gives the fallback
generate_answer(llm, question, context, outcome) ==
    CatchGenerate(
        IF llm.backend = "ollama"
        THEN generate_ollama(question, context, outcome)
        ELSE IF llm.backend = "huggingface"
        THEN generate_huggingface(llm, question, context, outcome)
        ELSE IF llm.backend = "openai"
        THEN generate_openai(llm, question, context, outcome)
        ELSE [raised |-> FALSE, answer |-> generate_fallback(question, context)],
        question, context)

\* the outcomes a backend call can have
BackendOutcomes(backend) ==
    IF backend = "ollama" THEN {"ok", "empty", "non200", "raises"}
    ELSE IF backend = "huggingface" THEN {"ok", "empty", "raises"}
    ELSE IF backend = "openai" THEN {"ok", "raises"}
    ELSE {"ok"}

(***************************************************************************)
(* ResumeVectorService: the read path.                                     *)
(***************************************************************************)
\* _format_context_for_llm
RECURSIVE ContextLines(_, _)
ContextLines(chunks, i) ==
    IF i > Len(chunks) THEN <<>>
    ELSE <<Str_Context \o IntToStr(i) \o Str_ColonSpace \o chunks[i]>>
            \o ContextLines(chunks, i + 1)

\* a context with the chunks on one line
format_context_one_line(top_3_chunks) == Join(ContextLines(top_3_chunks, 1), <<" ">>)

format_context_for_llm(top_3_chunks) == Join(ContextLines(top_3_chunks, 1), <<"\n">>)

\* the prefix _generate_fallback_single_answer picks for the question
SingleAnswerPrefix(question_lower) ==
    IF \E k \in {<<"s", "k", "i", "l", "l">>, <<"t", "e", "c", "h", "n", "o", "l", "o", "g", "y">>, <<"p", "r", "o", "g", "r", "a", "m", "m", "i", "n", "g">>} : Contains(question_lower, k)
    THEN Str_TechnicalSkills
    ELSE IF \E k \in {<<"e", "x", "p", "e", "r", "i", "e", "n", "c", "e">>, <<"w", "o", "r", "k">>, <<"j", "o", "b">>} : Contains(question_lower, k)
    THEN Str_WorkExperience
    ELSE IF \E k \in {<<"e", "d", "u", "c", "a", "t", "i", "o", "n">>, <<"d", "e", "g", "r", "e", "e">>, <<"s", "t", "u", "d", "y">>} : Contains(question_lower, k)
    THEN Str_Educational
    ELSE IF \E k \in {<<"c", "o", "n", "t", "a", "c", "t">>, <<"e", "m", "a", "i", "l">>, <<"p", "h", "o", "n", "e">>} : Contains(question_lower, k)
    THEN Str_ContactInfo
    ELSE Str_BasedOnResume

\* the keys of the dictionary a successful answer_question_with_llm returns,
\* from the LLM as from the single-answer fallback
AnswerKeys ==
    {"success", "question", "answer", "llm_backend", "chunks_used", "message"}

\* _generate_fallback_single_answer
generate_fallback_single_answer(question, top_3_chunks) ==
    [NoResult EXCEPT
        !.success = TRUE, !.keys = AnswerKeys,
        !.answer = SingleAnswerPrefix(Lower(question))
                      \o (IF top_3_chunks # <<>> THEN top_3_chunks[1] ELSE <<>>),
        !.llm_backend = "fallback", !.chunks_used = Len(top_3_chunks),
        !.message = "Single fallback answer generated"]

\* steps 3 to 5 of answer_question_with_llm: the context, the one call of
\* the generator, the returned dictionary
AnswerFromLlm(st, service, question, top_3_chunks, outcome) ==
    LET context == format_context_for_llm(top_3_chunks)
        g == generate_answer(service, question, context, outcome)
    IN  [store |-> st, llm |-> service,
         gen |-> [llm |-> service, question |-> question, context |-> context,
                  outcome |-> outcome, raised |-> g.raised, answer |-> g.answer],
         result |-> [NoResult EXCEPT
                        !.success = TRUE, !.keys = AnswerKeys,
                        !.answer = g.answer,
                        !.llm_backend = service.backend,
                        !.chunks_used = Len(top_3_chunks),
                        !.message = "Single answer generated"],
         trace |-> <<"search", "generate">>]

\* a read path that asks the generator before looking at the retrieval
AnswerFromSearchUnchecked(sr, llm, question, fault, env, outcome) ==
    AnswerFromLlm(sr.store, get_llm_service(llm, env), question,
                  sr.documents, outcome)

\* answer_question_with_llm after the retrieval returned.  The dictionary
\* search_similar_chunks returns always has the key 'documents', so
\* 'No search results found' is not returned.  Faults: the import of the
\* LLM module raising ImportError (<<"llm", "import">>) or another
\* exception (<<"llm", "error">>).
AnswerFromSearch(sr, llm, question, fault, env, outcome) ==
    IF sr.documents = <<>>
    THEN [store |-> sr.store, llm |-> llm, gen |-> NoGen,
          result |-> [NoResult EXCEPT !.error = "No relevant chunks found",
              !.message = "Could not find relevant information in the resume"],
          trace |-> <<"search">>]
    ELSE IF fault = <<"llm", "import">>
    THEN [store |-> sr.store, llm |-> llm, gen |-> NoGen,
          result |-> generate_fallback_single_answer(question, sr.documents),
          trace |-> <<"search", "fallback_single">>]
    ELSE IF fault = <<"llm", "error">>
    THEN [store |-> sr.store, llm |-> llm, gen |-> NoGen,
          result |-> [NoResult EXCEPT !.error = "exception",
              !.message = "Failed to process question through RAG pipeline"],
          trace |-> <<"search">>]
    ELSE AnswerFromLlm(sr.store, get_llm_service(llm, env), question,
                       sr.documents, outcome)

\* answer_question_with_llm
answer_question_with_llm(st, llm, question, n, fault, env, outcome) ==
    AnswerFromSearch(search_similar_chunks(st, question, n, fault),
                     llm, question, fault, env, outcome)

(***************************************************************************)
(* ResumeVectorService: answers enhanced with extracted entities.  The NER *)
(* model is consumed as it is: the environment says whether the service    *)
(* was set up, whether the extraction fails and which entities it gives    *)
(* (a list of entity types with their items, as the dictionary is filled). *)
(***************************************************************************)
Str_StructuredInformation == <<"\n", "\n", "S", "t", "r", "u", "c", "t", "u", "r", "e", "d", " ", "I", "n", "f", "o", "r", "m", "a", "t", "i", "o", "n", ":", " ">>
Str_CommaSpace == <<",", " ">>
Str_SemicolonSpace == <<";", " ">>
Str_Skills == <<"S", "k", "i", "l", "l", "s", ":", " ">>
Str_Languages == <<"L", "a", "n", "g", "u", "a", "g", "e", "s", ":", " ">>
Str_Email == <<"E", "m", "a", "i", "l", ":", " ">>
Str_Phone == <<"P", "h", "o", "n", "e", ":", " ">>
Str_Institutions == <<"I", "n", "s", "t", "i", "t", "u", "t", "i", "o", "n", "s", ":", " ">>
Str_Degrees == <<"D", "e", "g", "r", "e", "e", "s", ":", " ">>
Str_Companies == <<"C", "o", "m", "p", "a", "n", "i", "e", "s", ":", " ">>
Str_Positions == <<"P", "o", "s", "i", "t", "i", "o", "n", "s", ":", " ">>

\* the n_results answer_with_entity_context passes to answer_question_with_llm
EntityRagResults == 3

\* the entities an extraction may give: none, some that relate to no question
\* asked, and an organization with a designation
EmailEntities ==
    <<[type |-> "Email Addresses", items |-> << <<"e", "@", "x">> >>]>>

OrgEntities ==
    <<[type |-> "Organization", items |-> << <<"C", "o">>, <<"B">> >>],
      [type |-> "Designation", items |-> << <<"Q", "A">> >>]>>

EntityDicts == {<<>>, EmailEntities, OrgEntities}

\* self.ner_service is set, extract_entities fails, the entities it gives
NerEnvs == [available : BOOLEAN, fails : BOOLEAN, entities : EntityDicts]

NoNer == [available |-> FALSE, fails |-> FALSE, entities |-> <<>>]

\* the NER service at work, giving an organization and a designation
NerFull == [available |-> TRUE, fails |-> FALSE, entities |-> OrgEntities]

\* `key in entities` and entities[key]
HasEntity(entities, key) == \E i \in 1..Len(entities) : entities[i].type = key

EntityItems(entities, key) ==
    entities[CHOOSE i \in 1..Len(entities) : entities[i].type = key].items

\* if key in entities: relevant_info.append(f"{label}{', '.join(entities[key])}")
EntityPart(entities, key, label) ==
    IF HasEntity(entities, key)
    THEN <<label \o Join(EntityItems(entities, key), Str_CommaSpace)>>
    ELSE <<>>

\* any(word in question_lower for word in keywords)
AnyKeyword(question_lower, keywords) ==
    \E k \in keywords : Contains(question_lower, k)

\* _get_relevant_entities: the list relevant_info
RelevantInfo(question_lower, entities) ==
    (IF AnyKeyword(question_lower, {<<"s", "k", "i", "l", "l">>, <<"t", "e", "c", "h", "n", "o", "l", "o", "g", "y">>, <<"p", "r", "o", "g", "r", "a", "m", "m", "i", "n", "g">>, <<"l", "a", "n", "g", "u", "a", "g", "e">>})
     THEN EntityPart(entities, "Technical Skill", Str_Skills)
            \o EntityPart(entities, "Technical Skills", Str_Skills)
            \o EntityPart(entities, "Programming Language", Str_Languages)
            \o EntityPart(entities, "Programming Languages", Str_Languages)
     ELSE <<>>)
    \o
    (IF AnyKeyword(question_lower, {<<"c", "o", "n", "t", "a", "c", "t">>, <<"e", "m", "a", "i", "l">>, <<"p", "h", "o", "n", "e">>, <<"r", "e", "a", "c", "h">>})
     THEN EntityPart(entities, "Email Address", Str_Email)
            \o EntityPart(entities, "Email Addresses", Str_Email)
            \o EntityPart(entities, "Phone Number", Str_Phone)
            \o EntityPart(entities, "Phone Numbers", Str_Phone)
     ELSE <<>>)
    \o
    (IF AnyKeyword(question_lower, {<<"e", "d", "u", "c", "a", "t", "i", "o", "n">>, <<"d", "e", "g", "r", "e", "e">>, <<"c", "o", "l", "l", "e", "g", "e">>, <<"u", "n", "i", "v", "e", "r", "s", "i", "t", "y">>})
     THEN EntityPart(entities, "Educational Institution", Str_Institutions)
            \o EntityPart(entities, "Educational Institutions", Str_Institutions)
            \o EntityPart(entities, "Academic Degree", Str_Degrees)
            \o EntityPart(entities, "Academic Degrees", Str_Degrees)
            \o EntityPart(entities, "Degree", Str_Degrees)
     ELSE <<>>)
    \o
    (IF AnyKeyword(question_lower, {<<"w", "o", "r", "k">>, <<"j", "o", "b">>, <<"p", "o", "s", "i", "t", "i", "o", "n">>, <<"c", "o", "m", "p", "a", "n", "y">>, <<"o", "r", "g", "a", "n", "i", "z", "a", "t", "i", "o", "n">>})
     THEN EntityPart(entities, "Organization", Str_Companies)
            \o EntityPart(entities, "Organizations/Companies", Str_Companies)
            \o EntityPart(entities, "Job Title", Str_Positions)
            \o EntityPart(entities, "Job Titles/Positions", Str_Positions)
            \o EntityPart(entities, "Designation", Str_Positions)
     ELSE <<>>)

\* _get_relevant_entities: '; '.join(relevant_info), or ""
get_relevant_entities(question, entities) ==
    Join(RelevantInfo(Lower(question), entities), Str_SemicolonSpace)

\* extract_resume_entities(pdf_path=pdf): "" is the missing argument.  Every
\* exception is caught inside and reported as a failure.
extract_resume_entities(pdf, ner) ==
    IF pdf = "" \/ ~FileExists(pdf)
    THEN [success |-> FALSE, entities |-> <<>>,
          message |-> "No input provided for entity extraction"]
    ELSE IF ReaderRaises(pdf)
    THEN [success |-> FALSE, entities |-> <<>>,
          message |-> "Failed to extract entities from resume"]
    ELSE IF ~ner.available
    THEN [success |-> FALSE, entities |-> <<>>,
          message |-> "Resume NER model not loaded"]
    ELSE IF ner.fails
    THEN [success |-> FALSE, entities |-> <<>>,
          message |-> "Failed to extract entities"]
    ELSE [success |-> TRUE, entities |-> ner.entities,
          message |-> "Extracted entities"]

\* what is kept of one activation of answer_with_entity_context: the
\* dictionary its RAG call returned, the NER environment, whether
\* extract_resume_entities was invoked, and the entity context
NoEntityCall ==
    [rag |-> NoResult, ner |-> NoNer, extracted |-> FALSE,
     entity_context |-> <<>>]

\* the enhancement of a successful RAG answer
EnhanceAnswer(rag_result, entity_context) ==
    [rag_result EXCEPT
        !.answer = rag_result.answer \o Str_StructuredInformation
                      \o entity_context,
        !.entities_used = entity_context,
        !.enhancement = "NER_enhanced",
        !.keys = rag_result.keys \cup {"entities_used", "enhancement"}]

\* an enhancement that hands a failed extraction on to the caller
EntityContextFromRagStrict(rag, question, pdf, ner) ==
    LET er == extract_resume_entities(pdf, ner)
    IN  IF rag.result.success /\ ~er.success
        THEN [r |-> [rag EXCEPT
                        !.result = [NoResult EXCEPT !.message = er.message],
                        !.trace = rag.trace \o <<"extract_entities">>],
              entity_call |-> [rag |-> rag.result, ner |-> ner,
                               extracted |-> TRUE, entity_context |-> <<>>]]
        ELSE [r |-> rag,
              entity_call |-> [rag |-> rag.result, ner |-> ner,
                               extracted |-> FALSE, entity_context |-> <<>>]]

\* answer_with_entity_context after its RAG call returned (rag).  Nothing
\* between that call and the return raises: extract_resume_entities catches
\* its exceptions and the entity items are strings.
EntityContextFromRag(rag, question, pdf, ner) ==
    LET er == extract_resume_entities(pdf, ner)
        entity_context == get_relevant_entities(question, er.entities)
        plain == [rag |-> rag.result, ner |-> ner, extracted |-> FALSE,
                  entity_context |-> <<>>]
    IN  IF ~rag.result.success
        THEN [r |-> rag, entity_call |-> plain]
        ELSE IF ~(ner.available /\ pdf # "" /\ FileExists(pdf))
        THEN [r |-> rag, entity_call |-> plain]
        ELSE IF ~er.success
        THEN [r |-> [rag EXCEPT !.trace = rag.trace \o <<"extract_entities">>],
              entity_call |-> [plain EXCEPT !.extracted = TRUE]]
        ELSE IF entity_context = <<>>
        THEN [r |-> [rag EXCEPT !.trace = rag.trace \o <<"extract_entities">>],
              entity_call |-> [plain EXCEPT !.extracted = TRUE]]
        ELSE [r |-> [rag EXCEPT
                        !.result = EnhanceAnswer(rag.result, entity_context),
                        !.trace = rag.trace \o <<"extract_entities">>],
              entity_call |-> [plain EXCEPT !.extracted = TRUE,
                                  !.entity_context = entity_context]]

\* answer_with_entity_context
answer_with_entity_context(st, llm, question, pdf, ner, fault, env, outcome) ==
    EntityContextFromRag(
        answer_question_with_llm(st, llm, question, EntityRagResults,
                                 fault, env, outcome),
        question, pdf, ner)

(***************************************************************************)
(* routes/api.py: the resume endpoints.  Each gives the HTTP response, the *)
(* record of the service call it made (r), and whether it made one.        *)
(***************************************************************************)
\* the request (its route, the kind of its body, the 'query' it carried) and
\* the response (status and the body's success, error and message)
NoResponse ==
    [endpoint |-> "", body |-> "", query |-> <<>>,
     status |-> 0, success |-> FALSE, error |-> "", message |-> ""]

\* request.get_json(): a JSON object, the JSON value null (None), or a body
\* that is no JSON (get_json raises)
Bodies == {"json", "null", "malformed"}

\* a handler that answers 200 whatever the service returned
ServiceResponseAlwaysOk(res) ==
    [NoResponse EXCEPT !.status = 200, !.success = res.success,
                       !.error = res.error, !.message = res.message]

\* if result['success']: return jsonify(result), 200 / else: ..., 400
ServiceResponse(res) ==
    [NoResponse EXCEPT !.status = IF res.success THEN 200 ELSE 400,
                       !.success = res.success,
                       !.error = res.error, !.message = res.message]

\* except Exception as e: return jsonify({'success': False, ...}), 500
HandlerRaised(st, message) ==
    [called |-> FALSE,
     http |-> [NoResponse EXCEPT !.status = 500, !.error = "str(e)",
                                 !.message = message],
     r |-> [store |-> st, result |-> NoResult, trace |-> <<>>, deleted |-> FALSE]]

Served(r) == [called |-> TRUE, http |-> ServiceResponse(r.result), r |-> r]

\* POST /resume/process: data.get raises on None
process_resume(st, body, pdf, cs, ov, fault) ==
    IF body # "json" THEN HandlerRaised(st, "Failed to process resume")
    ELSE Served(process_resume_pdf(st, pdf, cs, ov, fault))

\* the 400 of search_resume for a query that is missing or empty
QueryRequired(st) ==
    [called |-> FALSE,
     http |-> [NoResponse EXCEPT !.status = 400,
                                 !.error = "Query parameter is required",
                                 !.message = "Please provide a search query"],
     r |-> [store |-> st, result |-> NoResult, trace |-> <<>>, deleted |-> FALSE]]

\* POST /resume/search
search_resume(st, body, q, n, fault) ==
    IF body # "json" THEN HandlerRaised(st, "Failed to search resume content")
    ELSE IF q = <<>> THEN QueryRequired(st)
    ELSE Served(search_resume_content(st, q, n, fault))

\* GET /resume/stats
api_get_resume_stats(st, fault) == Served(get_resume_stats(st, fault))

\* DELETE /resume/clear
api_clear_resume_vectors(st, fault) == Served(clear_resume_vectors(st, fault))

\* POST /resume/reprocess: data = request.get_json() or {}
api_reprocess_resume(st, body, pdf, cs, ov, fault) ==
    IF body = "malformed" THEN HandlerRaised(st, "Failed to reprocess resume")
    ELSE Served(reprocess_resume(st, pdf, cs, ov, fault))

(***************************************************************************)
(* State after the modules are imported: the client is open, no collection *)
(* was created, no LLMService was constructed.                             *)
(***************************************************************************)
NoCall ==
    [op |-> "none", pdf |-> "", chunk_size |-> 0, overlap |-> 0,
     query |-> <<>>, n_results |-> 0, fault |-> NoFault]

ServiceIdle ==
    /\ store = EmptyStore
    /\ call = NoCall
    /\ result = NoResult
    /\ trace = <<>>
    /\ runs = <<>>
    /\ http = NoResponse
    /\ entity_call = NoEntityCall

LlmIdle ==
    /\ llm_service = NoLlm
    /\ gen = NoGen
    /\ ctor = NoCtor

ChunkerIdle ==
    /\ c_text = <<>>
    /\ c_size = 0
    /\ c_overlap = 0
    /\ c_start = 0
    /\ c_index = 0
    /\ c_chunks = <<>>
    /\ c_pc = "idle"

(***************************************************************************)
(* Specification of the chunker alone: every text, chunk_size and overlap  *)
(* within the bounds, the arguments a caller may pass unvalidated included.*)
(***************************************************************************)
ChunkArgs == (0 - 2)..MaxChunk

InitChunk ==
    /\ c_text \in Texts
    /\ c_size \in ChunkArgs
    /\ c_overlap \in ChunkArgs
    /\ c_start = 0
    /\ c_index = 0
    /\ c_chunks = <<>>
    /\ c_pc = "entry"
    /\ ServiceIdle
    /\ LlmIdle

NextChunk == ChunkEntry \/ ChunkIterate \/ ChunkLoopExit

SpecChunk == InitChunk /\ [][NextChunk]_vars

(***************************************************************************)
(* Specification of the service: the calls a client of the API or a script *)
(* makes on ResumeVectorService, one at a time.                            *)
(***************************************************************************)
\* (chunk_size, overlap) pairs of the calls; short.pdf fits one chunk of
\* size 3 whatever the overlap, so it is processed with <<2, 1>> and <<3, 0>>
ProcessArgs == {<<2, 1>>, <<3, 0>>, <<3, 1>>}

Questions == { <<"a">>, <<"B", " ", "b">> }

NResults == (0 - 1)..MaxResults

\* the store call a fault names is one the handler can reach
ProcessFaults(st) ==
    {NoFault, <<"chunk", "raise">>, <<"add", "get">>, <<"add", "add">>,
     <<"stats", "get">>, <<"stats", "count">>}
        \cup (IF st.exists THEN {} ELSE {<<"add", "create">>})

ClearFaults == {<<"clear", "delete">>, <<"clear", "get">>, <<"clear", "create">>}

SearchFaults(st) ==
    {NoFault, <<"search", "get">>, <<"search", "query">>}
        \cup (IF st.exists THEN {} ELSE {<<"search", "create">>})

Readable(pdf) == FileExists(pdf) /\ ~ReaderRaises(pdf)

\* no request is being served
Idle == call.op = "none" /\ http.status = 0

\* POST /resume/process, and the scripts that call process_resume_pdf
ProcessResumePdf ==
    /\ Idle
    /\ \E body \in Bodies, pdf \in PdfFiles, args \in ProcessArgs,
          fault \in ProcessFaults(store) :
        /\ body # "json" => (pdf = "resume.pdf" /\ args = <<2, 1>> /\ fault = NoFault)
        /\ pdf = "short.pdf" => args # <<3, 1>>
        /\ ~Readable(pdf) => fault = NoFault
        /\ Readable(pdf) =>
               process_pdf_to_chunks(pdf, args[1], args[2], FALSE).returned
        /\ \E h \in {process_resume(store, body, pdf, args[1], args[2], fault)} :
           \E r \in {h.r} :
               /\ Len(r.store.docs) <= MaxStore
               /\ store' = r.store
               /\ result' = r.result
               /\ trace' = r.trace
               /\ entity_call' = NoEntityCall
               /\ http' = [h.http EXCEPT !.endpoint = "process", !.body = body,
                                          !.query = <<>>]
               /\ call' = IF ~h.called THEN NoCall
                          ELSE [NoCall EXCEPT !.op = "process", !.pdf = pdf,
                                   !.chunk_size = args[1], !.overlap = args[2],
                                   !.fault = fault]
               /\ runs' = IF r.result.success
                          THEN Append(runs, [pdf |-> pdf, chunk_size |-> args[1],
                                             overlap |-> args[2]])
                          ELSE runs
               /\ UNCHANGED <<chunkVars, llmVars>>

\* GET /resume/stats
GetResumeStats ==
    /\ Idle
    /\ \E fault \in {NoFault, <<"stats", "get">>, <<"stats", "count">>}
                       \cup (IF store.exists THEN {} ELSE {<<"stats", "create">>}) :
        \E h \in {api_get_resume_stats(store, fault)} :
           \E r \in {h.r} :
               /\ store' = r.store
               /\ result' = r.result
               /\ trace' = r.trace
               /\ entity_call' = NoEntityCall
               /\ http' = [h.http EXCEPT !.endpoint = "stats", !.body = "",
                                          !.query = <<>>]
               /\ call' = [NoCall EXCEPT !.op = "stats", !.fault = fault]
               /\ UNCHANGED <<runs, chunkVars, llmVars>>

\* DELETE /resume/clear
ClearResumeVectors ==
    /\ Idle
    /\ \E fault \in {NoFault} \cup ClearFaults :
        \E h \in {api_clear_resume_vectors(store, fault)} :
           \E r \in {h.r} :
               /\ store' = r.store
               /\ result' = r.result
               /\ trace' = r.trace
               /\ entity_call' = NoEntityCall
               /\ http' = [h.http EXCEPT !.endpoint = "clear", !.body = "",
                                          !.query = <<>>]
               /\ call' = [NoCall EXCEPT !.op = "clear", !.fault = fault]
               /\ runs' = IF r.deleted THEN <<>> ELSE runs
               /\ UNCHANGED <<chunkVars, llmVars>>

\* POST /resume/reprocess, with a body that names its parameters or is no JSON
ReprocessResume ==
    /\ Idle
    /\ \E body \in {"json", "malformed"}, pdf \in PdfFiles, args \in ProcessArgs,
          fault \in ProcessFaults([exists |-> TRUE]) \cup ClearFaults :
        /\ body # "json" => (pdf = "resume.pdf" /\ args = <<2, 1>> /\ fault = NoFault)
        /\ pdf = "short.pdf" => args # <<3, 1>>
        /\ ~Readable(pdf) => fault \in {NoFault} \cup ClearFaults
        /\ Readable(pdf) =>
               process_pdf_to_chunks(pdf, args[1], args[2], FALSE).returned
        /\ \E h \in {api_reprocess_resume(store, body, pdf, args[1], args[2], fault)} :
           \E r \in {h.r} :
               /\ Len(r.store.docs) <= MaxStore
               /\ store' = r.store
               /\ result' = r.result
               /\ trace' = r.trace
               /\ entity_call' = NoEntityCall
               /\ http' = [h.http EXCEPT !.endpoint = "reprocess", !.body = body,
                                          !.query = <<>>]
               /\ call' = IF ~h.called THEN NoCall
                          ELSE [NoCall EXCEPT !.op = "reprocess", !.pdf = pdf,
                                   !.chunk_size = args[1], !.overlap = args[2],
                                   !.fault = fault]
               /\ runs' = IF r.result.success
                          THEN <<[pdf |-> pdf, chunk_size |-> args[1],
                                  overlap |-> args[2]]>>
                          ELSE IF r.deleted THEN <<>> ELSE runs
               /\ UNCHANGED <<chunkVars, llmVars>>

\* POST /resume/search, and the scripts that call search_resume_content
SearchResumeContent ==
    /\ Idle
    /\ \E body \in Bodies, q \in Questions \cup {<<>>}, n \in NResults,
          fault \in SearchFaults(store) :
        /\ (body # "json" \/ q = <<>>) => (n = 3 /\ fault = NoFault)
        /\ body # "json" => q = <<>>
        /\ \E h \in {search_resume(store, body, q, n, fault)} :
           \E r \in {h.r} :
               /\ store' = r.store
               /\ result' = r.result
               /\ trace' = r.trace
               /\ entity_call' = NoEntityCall
               /\ http' = [h.http EXCEPT !.endpoint = "search", !.body = body,
                                          !.query = q]
               /\ call' = IF ~h.called THEN NoCall
                          ELSE [NoCall EXCEPT !.op = "search", !.query = q,
                                   !.n_results = n, !.fault = fault]
               /\ UNCHANGED <<runs, chunkVars, llmVars>>

\* the environments that decide what get_llm_service() constructs
AutoEnvs ==
    {[ollama_up |-> TRUE, hf_loads |-> FALSE, has_key |-> FALSE],
     [ollama_up |-> FALSE, hf_loads |-> TRUE, has_key |-> FALSE],
     [ollama_up |-> FALSE, hf_loads |-> FALSE, has_key |-> FALSE]}

\* the question-answering callers of answer_question_with_llm
AnswerQuestionWithLlm ==
    /\ Idle
    /\ \E q \in Questions, n \in NResults,
          fault \in SearchFaults(store) \cup {<<"llm", "import">>, <<"llm", "error">>},
          env \in AutoEnvs :
           /\ (llm_service.backend # "unset" \/ fault # NoFault) => env = NoEnv
           /\ \E outcome \in BackendOutcomes(get_llm_service(llm_service, env).backend) :
                  /\ fault # NoFault => outcome = "ok"
                  /\ \E r \in {answer_question_with_llm(store, llm_service, q, n,
                                                       fault, env, outcome)} :
                         /\ store' = r.store
                         /\ llm_service' = r.llm
                         /\ result' = r.result
                         /\ trace' = r.trace
                         /\ call' = [NoCall EXCEPT !.op = "answer", !.query = q,
                                        !.n_results = n, !.fault = fault]
                         /\ entity_call' = NoEntityCall
                         /\ http' = NoResponse
                         /\ ctor' = IF llm_service.backend = "unset"
                                        /\ r.llm.backend # "unset"
                                     THEN [backend |-> "auto", env |-> env,
                                           raised |-> FALSE]
                                     ELSE ctor
                         /\ gen' = IF r.trace = <<"search", "generate">>
                                    THEN r.gen ELSE gen
                         /\ UNCHANGED <<runs, chunkVars>>

\* the questions put to answer_with_entity_context: one that names no entity
\* type and one about the job
EntityQuestions == { <<"a">>, <<"j", "o", "b">> }

\* its pdf_path: none (""), a resume, a file that is no PDF, no file
EntityPdfs == {"", "resume.pdf", "corrupt.pdf", "missing.pdf"}

AnswerWithEntityContext ==
    /\ Idle
    /\ \E q \in EntityQuestions, pdf \in EntityPdfs, ner \in NerEnvs,
          fault \in SearchFaults(store) \cup {<<"llm", "import">>, <<"llm", "error">>},
          env \in AutoEnvs :
           /\ (llm_service.backend # "unset" \/ fault # NoFault) => env = NoEnv
           /\ ~ner.available => ner = NoNer
           /\ ner.fails => ner.entities = <<>>
           /\ (pdf # "resume.pdf" \/ q = <<"a">> \/ fault # NoFault) => ner = NerFull
           /\ (q = <<"a">> \/ fault # NoFault) => pdf = "resume.pdf"
           /\ \E outcome \in BackendOutcomes(get_llm_service(llm_service, env).backend) :
                  /\ fault # NoFault => outcome = "ok"
                  /\ outcome # "ok" => (pdf = "resume.pdf" /\ ner = NerFull)
                  /\ \E h \in {answer_with_entity_context(store, llm_service, q, pdf,
                                      ner, fault, env, outcome)} :
                     \E r \in {h.r} :
                         /\ store' = r.store
                         /\ llm_service' = r.llm
                         /\ result' = r.result
                         /\ trace' = r.trace
                         /\ entity_call' = h.entity_call
                         /\ call' = [NoCall EXCEPT !.op = "answer_entity",
                                        !.query = q, !.pdf = pdf,
                                        !.n_results = EntityRagResults,
                                        !.fault = fault]
                         /\ http' = NoResponse
                         /\ ctor' = IF llm_service.backend = "unset"
                                        /\ r.llm.backend # "unset"
                                     THEN [backend |-> "auto", env |-> env,
                                           raised |-> FALSE]
                                     ELSE ctor
                         /\ gen' = IF "generate" \in {r.trace[i] : i \in 1..Len(r.trace)}
                                    THEN r.gen ELSE gen
                         /\ UNCHANGED <<runs, chunkVars>>

\* the caller has the returned dictionary: the service is idle again and
\* the activation of the generator is over
Respond ==
    /\ ~Idle
    /\ call' = NoCall
    /\ result' = NoResult
    /\ trace' = <<>>
    /\ entity_call' = NoEntityCall
    /\ http' = NoResponse
    /\ gen' = NoGen
    /\ UNCHANGED <<store, runs, chunkVars, llm_service, ctor>>

Init == ChunkerIdle /\ ServiceIdle /\ LlmIdle

Next ==
    \/ ProcessResumePdf
    \/ GetResumeStats
    \/ ClearResumeVectors
    \/ ReprocessResume
    \/ SearchResumeContent
    \/ AnswerQuestionWithLlm
    \/ AnswerWithEntityContext
    \/ Respond

Spec == Init /\ [][Next]_vars

(***************************************************************************)
(* Specification of the LLM service alone: services constructed with every *)
(* backend name, asked to answer.                                          *)
(***************************************************************************)
Backends == {"auto", "ollama", "huggingface", "openai", "fallback", "other"}

\* the length of the chunks of the long context
LongChunkLen == 40

\* a chunk that shares no word with any question
LongChunk == [i \in 1..LongChunkLen |-> "z"]

\* contexts as the read path builds them from stored chunks
SampleChunkLists ==
    { << <<"a", "b", " ">> >>,
      << <<"a", " ", "b">>, <<"b">> >>,
      << <<"b", " ", "a">>, <<"a", "b", " ">>, <<"b", "b">>, <<"B">> >>,
      << <<"a", " ">>, <<" ", "a">>, <<"b", " ", "A">>, <<"a", " ", "b">> >>,
      << LongChunk, LongChunk, LongChunk, LongChunk, LongChunk >> }

Contexts == {format_context_for_llm(cl) : cl \in SampleChunkLists}

\* initialize_llm_service(backend): the global is replaced unless the
\* constructor raises; gen is the last call made on the current global
InitializeLlmService ==
    \E backend \in Backends, env \in LlmEnvs :
        \E r \in {LLMService(backend, env)} :
            /\ llm_service' = IF r.raised THEN llm_service ELSE r.llm
            /\ ctor' = [backend |-> backend, env |-> env, raised |-> r.raised]
            /\ gen' = IF r.raised THEN gen ELSE NoGen
            /\ UNCHANGED <<chunkVars, serviceVars>>

\* llm_service.generate_answer(question, context)
GenerateAnswer ==
    /\ llm_service.backend # "unset"
    /\ \E q \in Questions, ctx \in Contexts,
          outcome \in BackendOutcomes(llm_service.backend) :
           \E r \in {generate_answer(llm_service, q, ctx, outcome)} :
               /\ gen' = [llm |-> llm_service, question |-> q, context |-> ctx,
                          outcome |-> outcome,
                          raised |-> r.raised, answer |-> r.answer]
               /\ UNCHANGED <<llm_service, ctor, chunkVars, serviceVars>>

NextLLM == InitializeLlmService \/ GenerateAnswer

SpecLLM == Init /\ [][NextLLM]_vars

(***************************************************************************)
(* Claims about the chunker (checked under SpecChunk).                     *)
(***************************************************************************)
ValidChunkArgs == c_size >= 1 /\ 0 <= c_overlap /\ c_overlap < c_size

FirstChars(t, n) == SubSeq(t, 1, n)
LastChars(t, n) == SubSeq(t, Len(t) - n + 1, Len(t))

\* C1: for a text longer than chunk_size and 0 <= overlap < chunk_size,
\* consecutive chunks overlap by exactly `overlap` characters: chunk i+1 starts
\* at end_pos[i] - overlap, and the last `overlap` characters of chunk i are the
\* first `overlap` characters of chunk i+1.
C1_ExactOverlap ==
    (ValidChunkArgs /\ Len(c_text) > c_size) =>
        \A i \in 1..(Len(c_chunks) - 1) :
            /\ c_chunks[i + 1].start_pos = c_chunks[i].end_pos - c_overlap
            /\ Len(c_chunks[i].text) >= c_overlap
            /\ Len(c_chunks[i + 1].text) >= c_overlap
            /\ LastChars(c_chunks[i].text, c_overlap)
                   = FirstChars(c_chunks[i + 1].text, c_overlap)

C1_Witness ==
    /\ ValidChunkArgs /\ Len(c_text) > c_size
    /\ c_pc = "done" /\ c_overlap >= 1 /\ Len(c_chunks) >= 3
    /\ \E i \in 1..Len(c_text) : c_text[i] # c_text[1]

\* C2: for chunk_size >= 1 and 0 <= overlap < chunk_size the returned chunks
\* miss nothing: every position of the text lies in some [start_pos, end_pos),
\* the first chunk starts at 0, the last ends at len(text), and no chunk starts
\* after its predecessor's end.
C2_NothingMissed ==
    (ValidChunkArgs /\ c_pc = "done") =>
        /\ Len(c_chunks) >= 1
        /\ c_chunks[1].start_pos = 0
        /\ c_chunks[Len(c_chunks)].end_pos = Len(c_text)
        /\ \A p \in 0..(Len(c_text) - 1) :
               \E i \in 1..Len(c_chunks) :
                   c_chunks[i].start_pos <= p /\ p < c_chunks[i].end_pos
        /\ \A i \in 1..(Len(c_chunks) - 1) :
               c_chunks[i + 1].start_pos <= c_chunks[i].end_pos

C2_Witness ==
    /\ ValidChunkArgs /\ c_pc = "done"
    /\ Len(c_chunks) >= 3 /\ Len(c_text) = MaxLen

\* C3 as stated: every returned chunk is text[start_pos:end_pos] and has
\* exactly chunk_size characters.
C3_FixedLength ==
    (ValidChunkArgs /\ c_pc = "done") =>
        \A i \in 1..Len(c_chunks) :
            /\ c_chunks[i].text
                  = PySlice(c_text, c_chunks[i].start_pos, c_chunks[i].end_pos)
            /\ Len(c_chunks[i].text) = c_size

\* C3 amended: every returned chunk is text[start_pos:end_pos]; every chunk
\* but the last has exactly chunk_size characters and the last one (the only
\* one when the text is not longer than chunk_size) has at most chunk_size.
C3_SubstringAtMostChunkSize ==
    (ValidChunkArgs /\ c_pc = "done") =>
        \A i \in 1..Len(c_chunks) :
            /\ c_chunks[i].text
                  = PySlice(c_text, c_chunks[i].start_pos, c_chunks[i].end_pos)
            /\ c_chunks[i].chunk_size = Len(c_chunks[i].text)
            /\ Len(c_chunks[i].text) <= c_size
            /\ i < Len(c_chunks) => Len(c_chunks[i].text) = c_size

C3_Witness ==
    /\ ValidChunkArgs /\ c_pc = "done"
    /\ Len(c_chunks) >= 2
    /\ Len(c_chunks[Len(c_chunks)].text) < c_size

(***************************************************************************)
(* Claims about retrieval (checked under Spec).                            *)
(***************************************************************************)
Occurrences(seq, x) == Cardinality({i \in 1..Len(seq) : seq[i] = x})

StoredDocuments == [i \in 1..Len(store.docs) |-> store.docs[i].document]

SearchReturned == call.op = "search"

\* C4: a search returns stored chunks ranked by distance to the query: the
\* distances are in non-decreasing order, distances[i] is the distance of
\* documents[i], every returned document is stored, and every stored chunk
\* strictly closer than the farthest returned one is returned.
C4_RankedByDistance ==
    SearchReturned =>
        /\ Len(result.documents) = Len(result.distances)
        /\ \A i \in 1..Len(result.documents) :
              /\ result.distances[i] = Distance(call.query, result.documents[i])
              /\ Occurrences(result.documents, result.documents[i])
                    <= Occurrences(StoredDocuments, result.documents[i])
        /\ \A i \in 1..(Len(result.distances) - 1) :
              result.distances[i] <= result.distances[i + 1]
        /\ \A j \in 1..Len(StoredDocuments) :
              \A i \in 1..Len(result.distances) :
                  Distance(call.query, StoredDocuments[j]) < result.distances[i]
                     => Occurrences(result.documents, StoredDocuments[j])
                           = Occurrences(StoredDocuments, StoredDocuments[j])

C4_Witness ==
    /\ SearchReturned
    /\ Len(result.documents) >= 2
    /\ Len(result.documents) < Len(store.docs)
    /\ result.distances[1] < result.distances[Len(result.distances)]
    /\ \E j \in 1..Len(StoredDocuments) :
          Distance(call.query, StoredDocuments[j])
             > result.distances[Len(result.distances)]

QuerySucceeded ==
    /\ call.n_results >= 1
    /\ call.fault = NoFault

\* C5 as stated (for n_results >= 1): search_similar_chunks(query, 3) gives
\* exactly 3 chunks once a resume was processed; the count is n_results
\* whenever the collection holds at least n_results chunks, and never more
\* than n_results.
C5_ExactlyNResults ==
    (SearchReturned /\ call.n_results >= 1) =>
        /\ (call.n_results = 3 /\ store.docs # <<>>) => result.count = 3
        /\ Len(store.docs) >= call.n_results => result.count = call.n_results
        /\ result.count <= call.n_results

\* C5 amended: for n_results >= 1 the count is min(n_results, stored chunks)
\* when the query succeeds (so n_results whenever that many chunks are stored,
\* and fewer than 3 for n_results = 3 while fewer than 3 are stored), 0 when a
\* store call raises, and never more than n_results; for n_results <= 0
\* nothing is returned.
C5_AtMostNResults ==
    SearchReturned =>
        /\ result.count = Len(result.documents)
        /\ QuerySucceeded =>
              result.count = Min(call.n_results, Len(store.docs))
        /\ ~QuerySucceeded => result.count = 0
        /\ call.n_results >= 1 => result.count <= call.n_results

C5_Witness ==
    /\ SearchReturned
    /\ QuerySucceeded
    /\ call.n_results = 3
    /\ Len(store.docs) = 1
    /\ result.count = 1

(***************************************************************************)
(* Claim about LLMService.generate_answer (checked under SpecLLM).         *)
(***************************************************************************)
BackendFailed ==
    \/ gen.llm.backend \notin {"ollama", "huggingface", "openai"}
    \/ gen.outcome \in {"raises", "non200"}
    \/ gen.llm.backend = "huggingface" /\ ~gen.llm.model_loaded
    \/ gen.llm.backend = "openai" /\ ~gen.llm.has_client

\* C6: generate_answer never raises, and whenever the backend is not one of
\* the three generators, is unavailable, raises or answers with a status
\* other than 200, the answer is exactly _generate_fallback(question, context).
C6_FallbackOnFailure ==
    gen.outcome # "none" =>
        /\ ~gen.raised
        /\ BackendFailed =>
              gen.answer = generate_fallback(gen.question, gen.context)

C6_Witness ==
    /\ gen.llm.backend = "ollama"
    /\ gen.outcome = "non200"
    /\ gen.answer = generate_fallback(gen.question, gen.context)
    /\ gen.answer # LlmText

(***************************************************************************)
(* Claims about the read and write paths (checked under Spec).             *)
(***************************************************************************)
GeneratorSteps == {i \in 1..Len(trace) : trace[i] \in {"generate", "fallback_single"}}

\* what the retrieval of the last answer call returned
Retrieved ==
    search_similar_chunks(store, call.query, call.n_results, call.fault).documents

\* C7: in answer_question_with_llm the retrieval comes first, a generator is
\* invoked at most once, after the retrieval and only when it returned a
\* chunk; with no chunk the call fails with 'No relevant chunks found' (or
\* 'No search results found') and no generator is invoked.
C7_ReadPathOrder ==
    call.op = "answer" =>
        /\ Len(trace) >= 1 /\ trace[1] = "search"
        /\ Cardinality(GeneratorSteps) <= 1
        /\ \A i \in GeneratorSteps : i > 1 /\ Retrieved # <<>>
        /\ Retrieved = <<>> =>
              /\ ~result.success
              /\ result.error \in {"No relevant chunks found",
                                   "No search results found"}
              /\ GeneratorSteps = {}

C7_Witness ==
    /\ call.op = "answer"
    /\ trace = <<"search", "generate">>
    /\ result.success
    /\ result.chunks_used >= 2

StepsBefore(i) == {trace[j] : j \in 1..(i - 1)}

ProcessCannotChunk(c) ==
    \/ ~FileExists(c.pdf)
    \/ ReaderRaises(c.pdf)
    \/ c.fault = <<"chunk", "raise">>

\* C8: process_resume_pdf adds to the store only after extraction and
\* chunking completed, and when the PDF does not exist or extraction or
\* chunking raises it returns success=False and leaves the store as it was.
C8_WritePathOrder ==
    /\ [](call.op = "process" =>
            \A i \in 1..Len(trace) :
                trace[i] = "add" => {"extract", "chunk"} \subseteq StepsBefore(i))
    /\ [][(call'.op = "process" /\ ProcessCannotChunk(call'))
             => (~result'.success /\ store' = store /\ "add" \notin
                    {trace'[i] : i \in 1..Len(trace')})]_vars

C8_Witness ==
    /\ call.op = "process"
    /\ ProcessCannotChunk(call)
    /\ ~result.success
    /\ store.docs # <<>>

NewChunkTexts ==
    process_pdf_to_chunks(call.pdf, call.chunk_size, call.overlap, FALSE).chunk_texts

\* C9: after a reprocess_resume that returns success=True the collection
\* holds exactly the chunks of the newly processed PDF, and
\* collection_stats.total_chunks in the result equals the result's total_chunks.
C9_ReprocessReplaces ==
    (call.op = "reprocess" /\ result.success) =>
        /\ StoredDocuments = NewChunkTexts
        /\ result.total_chunks = Len(store.docs)
        /\ result.stats_total = result.total_chunks

RECURSIVE ChunksOfRuns(_)
ChunksOfRuns(rs) ==
    IF rs = <<>> THEN <<>>
    ELSE process_pdf_to_chunks(rs[1].pdf, rs[1].chunk_size, rs[1].overlap,
                               FALSE).chunk_texts
            \o ChunksOfRuns(Tail(rs))

\* C10: process_resume_pdf only adds: the collection holds, under pairwise
\* different ids, the chunks of every successful run since it was last
\* deleted, so after k runs with the same arguments it holds k times the
\* chunks of one run, each chunk k times as often as one run produces it.
C10_Additive ==
    /\ StoredDocuments = ChunksOfRuns(runs)
    /\ \A i, j \in 1..Len(store.docs) :
          store.docs[i].id = store.docs[j].id => i = j
    /\ (runs # <<>> /\ \A i \in 1..Len(runs) : runs[i] = runs[1]) =>
          /\ Len(store.docs) = Len(runs) * Len(ChunksOfRuns(<<runs[1]>>))
          /\ \A i \in 1..Len(store.docs) :
                Occurrences(StoredDocuments, StoredDocuments[i])
                   = Len(runs) * Occurrences(ChunksOfRuns(<<runs[1]>>),
                                             StoredDocuments[i])

C10_Witness ==
    /\ Len(runs) = 2
    /\ runs[1] = runs[2]
    /\ Len(ChunksOfRuns(<<runs[1]>>)) = 2
    /\ Len(store.docs) = 4
    /\ call.op = "process" /\ result.success


(***************************************************************************)
(* Claim about clearing (checked under Spec).                              *)
(***************************************************************************)
\* C11: after a clear_resume_vectors that returns success=True the collection
\* exists and holds no chunk, also when there was none before; a collection
\* without chunks gets chunks only by a successful process_resume_pdf (alone
\* or inside reprocess_resume); and while it holds none every search returns
\* count 0 and every answer_question_with_llm returns success=False.
C11_ClearedUntilProcessed ==
    /\ []((call.op = "clear" /\ result.success) =>
             (store.exists /\ store.docs = <<>>))
    /\ [][(store.docs = <<>> /\ store'.docs # <<>>) =>
             (call'.op \in {"process", "reprocess"} /\ result'.success)]_vars
    /\ [](store.docs = <<>> =>
             /\ call.op = "search" => result.count = 0
             /\ call.op = "answer" => ~result.success)

C11_Witness ==
    /\ call.op = "clear"
    /\ call.fault = NoFault
    /\ result.success
    /\ store = [exists |-> TRUE, docs |-> <<>>]
    /\ runs = <<>>

(***************************************************************************)
(* Claims about the resume endpoints (checked under Spec).                 *)
(***************************************************************************)
ServiceReturned == call.op # "none"

\* C12: a resume endpoint answers 200 exactly when the service returned
\* success=True, 400 when the service returned success=False, 500 only when
\* the handler itself raised (no service result was returned), and the
\* 'success' of the body is true exactly for status 200.
C12_StatusMatchesSuccess ==
    http.status # 0 =>
        /\ http.status \in {200, 400, 500}
        /\ http.status = 200 <=> (ServiceReturned /\ result.success)
        /\ (ServiceReturned /\ ~result.success) => http.status = 400
        /\ http.status = 500 => (~ServiceReturned /\ http.error = "str(e)")
        /\ http.success <=> http.status = 200

C12_Witness ==
    /\ http.status = 400
    /\ call.op = "reprocess"
    /\ ~result.success /\ ~http.success
    /\ http.error = result.error

(***************************************************************************)
(* Claims about the result of answer_question_with_llm (checked under Spec)*)
(***************************************************************************)
\* "n_results: Number of context chunks to retrieve (fixed at 3)"
FixedContextChunks == 3

\* C13: whatever n_results is, answer_question_with_llm fetches at most 3
\* chunks from the store and hands at most 3 to the generator: chunks_used <= 3.
C13_AtMostThreeChunks ==
    call.op = "answer" =>
        /\ Len(Retrieved) <= FixedContextChunks
        /\ result.success => result.chunks_used <= FixedContextChunks

\* C14: a successful answer_question_with_llm result carries the context
\* chunks given to the generator (context_chunks), one distance per chunk
\* (chunk_scores) and their number (num_chunks_used).
C14_ExposesContext ==
    (call.op = "answer" /\ result.success) =>
        {"context_chunks", "chunk_scores", "num_chunks_used"} \subseteq result.keys

\* C15: POST /resume/search with a missing or empty 'query' returns status 400
\* with the error 'Query parameter is required' and issues no query against
\* the vector store.
C15_MissingQueryRejected ==
    (http.endpoint = "search" /\ http.query = <<>>) =>
        /\ http.status = 400
        /\ http.error = "Query parameter is required"
        /\ ~ServiceReturned
        /\ trace = <<>>

\* the part of C15 that holds in every case: no request without a query
\* reaches the service or the vector store
C15_NoStoreQuery ==
    (http.endpoint = "search" /\ http.query = <<>>) =>
        (~ServiceReturned /\ trace = <<>>)

\* C15 on the requests whose body is a JSON object: no 'query', or an empty
\* one, answers 400 with the error 'Query parameter is required', calls no
\* service and makes no call on the vector store, which stays as it was.
C15_EmptyQueryRejected ==
    /\ []((http.endpoint = "search" /\ http.body = "json" /\ http.query = <<>>) =>
             /\ http.status = 400 /\ ~http.success
             /\ http.error = "Query parameter is required"
             /\ ~ServiceReturned
             /\ trace = <<>>)
    /\ [][(http'.endpoint = "search" /\ http'.body = "json" /\ http'.query = <<>>)
             => store' = store]_vars

C15_Witness ==
    /\ http.endpoint = "search" /\ http.body = "json" /\ http.query = <<>>
    /\ http.status = 400
    /\ store.docs # <<>>

(***************************************************************************)
(* Further claims about the chunker (checked under SpecChunk).             *)
(***************************************************************************)
LastChunk == c_chunks[Len(c_chunks)]

\* C16: for a text longer than chunk_size and 0 <= overlap < chunk_size, every
\* chunk but the last has exactly chunk_size characters, the last has more
\* than `overlap` and at most chunk_size, and every chunk after the first
\* ends behind its predecessor's end: it holds a character not yet covered.
C16_LastChunkBeyondOverlap ==
    (ValidChunkArgs /\ Len(c_text) > c_size /\ c_pc = "done") =>
        /\ \A i \in 1..(Len(c_chunks) - 1) : Len(c_chunks[i].text) = c_size
        /\ Len(LastChunk.text) > c_overlap
        /\ Len(LastChunk.text) <= c_size
        /\ \A i \in 2..Len(c_chunks) :
               /\ c_chunks[i].end_pos > c_chunks[i - 1].end_pos
               /\ Len(c_chunks[i].text) > c_overlap

C16_Witness ==
    /\ ValidChunkArgs /\ Len(c_text) > c_size /\ c_pc = "done"
    /\ c_overlap >= 1
    /\ Len(c_chunks) >= 2
    /\ Len(LastChunk.text) = c_overlap + 1
    /\ Len(LastChunk.text) < c_size

\* C17: create_chunks_with_overlap terminates for every text and every integer
\* chunk_size and overlap, overlap >= chunk_size, overlap < 0 and
\* chunk_size <= 0 included.  The loop is left only through start >= len(text)
\* or end >= len(text), and an iteration that is not the last has
\* end = start + chunk_size < len(text): the loop ends exactly if each such
\* iteration moves start forward.
C17_Terminates ==
    [][(c_pc = "loop" /\ c_pc' = "loop") => c_start' > c_start]_vars

\* ceil(a / b) for b > 0
CeilDiv(a, b) == (a + b - 1) \div b

\* C18: for a text of length L > chunk_size = c and 0 <= overlap = o < c the
\* function returns exactly ceil((L - o) / (c - o)) chunks, and chunk k
\* (counted from 0) starts at k * (c - o).
C18_ChunkCount ==
    (ValidChunkArgs /\ Len(c_text) > c_size) =>
        /\ \A i \in 1..Len(c_chunks) :
               c_chunks[i].start_pos = (i - 1) * (c_size - c_overlap)
        /\ c_pc = "done" =>
               Len(c_chunks) = CeilDiv(Len(c_text) - c_overlap, c_size - c_overlap)

C18_Witness ==
    /\ ValidChunkArgs /\ Len(c_text) > c_size /\ c_pc = "done"
    /\ c_overlap >= 1
    /\ Len(c_chunks) >= 2
    /\ (Len(c_text) - c_overlap) % (c_size - c_overlap) # 0

\* the output of process_pdf_to_chunks for the text being chunked (as
\* extract_text_from_pdf returns it: cleaned)
ExtractedText == c_text = clean_text(c_text)

OutputMetadata == ChunkMetadata(c_chunks, "resume.pdf")

OutputTexts == [i \in 1..Len(c_chunks) |-> c_chunks[i].text]

\* C19: in the output of process_pdf_to_chunks chunk_index is 0, 1, ..., n-1
\* in list order, start_pos is strictly increasing, each metadata chunk_size
\* is end_pos - start_pos and the length of the chunk text at the same index,
\* overlap_chars is 0 for the first chunk and `overlap` for the later ones,
\* and total_chunks is n = len(chunk_texts) in every entry.
C19_Bookkeeping ==
    (c_pc = "done" /\ ExtractedText) =>
        /\ Len(OutputMetadata) = Len(OutputTexts)
        /\ \A i \in 1..Len(OutputTexts) :
              /\ OutputMetadata[i].chunk_index = i - 1
              /\ OutputMetadata[i].chunk_size
                    = OutputMetadata[i].end_pos - OutputMetadata[i].start_pos
              /\ OutputMetadata[i].chunk_size = Len(OutputTexts[i])
              /\ OutputMetadata[i].overlap_chars = IF i = 1 THEN 0 ELSE c_overlap
              /\ OutputMetadata[i].total_chunks = Len(OutputTexts)
        /\ \A i \in 1..(Len(OutputTexts) - 1) :
              OutputMetadata[i].start_pos < OutputMetadata[i + 1].start_pos

\* C20: when len(text) <= chunk_size (the empty text included),
\* create_chunks_with_overlap returns exactly one chunk, whose text is the
\* whole input, with chunk_index 0, start_pos 0, end_pos len(text) and
\* overlap_chars 0, whatever the overlap argument is.
C20_WholeTextChunk ==
    (c_pc = "done" /\ Len(c_text) <= c_size) =>
        /\ Len(c_chunks) = 1
        /\ c_chunks[1].text = c_text
        /\ c_chunks[1].chunk_index = 0
        /\ c_chunks[1].start_pos = 0
        /\ c_chunks[1].end_pos = Len(c_text)
        /\ c_chunks[1].overlap_chars = 0

C20_Witness ==
    /\ c_pc = "done"
    /\ Len(c_text) >= 1
    /\ Len(c_text) <= c_size
    /\ c_overlap >= c_size
    /\ Len(c_chunks) = 1

\* the same on the empty text, with a negative overlap
C20_WitnessEmpty ==
    /\ c_pc = "done"
    /\ c_text = <<>>
    /\ c_size = 0
    /\ c_overlap < 0
    /\ Len(c_chunks) = 1

(***************************************************************************)
(* Claims about failures and their reports (checked under Spec).           *)
(***************************************************************************)
\* the store raised while the search was served
StoreQueryFailed == call.op = "search" /\ call.fault # NoFault

\* C21: when the vector store query fails (the store raises),
\* search_resume_content returns success=False with the message 'Failed to
\* search resume content', and POST /resume/search answers with a status
\* other than 200.
C21_SearchFailureReported ==
    StoreQueryFailed =>
        /\ ~result.success
        /\ result.message = "Failed to search resume content"
        /\ http.status # 200

\* C22: if clearing fails inside reprocess_resume, the failure result of
\* clear_resume_vectors is returned as it is, the PDF is not processed (no
\* step after the clearing is taken) and the call adds no chunk to the
\* vector store: the stored documents are those from before, or none.
C22_ClearFailureReturned ==
    [][(call'.op = "reprocess" /\ call'.fault \in ClearFaults) =>
          /\ ~result'.success
          /\ result'.error = "Failed to clear vectors"
          /\ result'.message = "Failed to clear resume vectors"
          /\ result'.total_chunks = NoResult.total_chunks
          /\ trace' = <<"clear">>
          /\ store'.docs \in {store.docs, <<>>}]_vars

C22_Witness ==
    /\ call.op = "reprocess" /\ call.fault \in ClearFaults
    /\ Readable(call.pdf)
    /\ store.docs # <<>>
    /\ ~result.success

\* C23: reprocess_resume is all-or-nothing: whenever it returns success=False
\* (the PDF file does not exist, storing the new chunks fails, ...), the
\* collection still holds the chunks it held before the call.
C23_AllOrNothing ==
    [][(call'.op = "reprocess" /\ ~result'.success) =>
          store'.docs = store.docs]_vars

\* C23 as the code has it: reprocess_resume clears first.  When it returns
\* success=False the collection holds what it held before the call only if
\* the deletion of the collection itself raised; once the deletion is past
\* (the re-creation raised, the PDF is missing or unreadable, the chunking
\* raised or the storing failed) none of the earlier chunks is left.
C23_ClearedOnFailure ==
    [][(call'.op = "reprocess" /\ ~result'.success) =>
          IF call'.fault = <<"clear", "delete">>
          THEN store' = store
          ELSE store'.docs = <<>>]_vars

C23_Witness ==
    /\ call.op = "reprocess" /\ ~result.success
    /\ ~FileExists(call.pdf)
    /\ call.fault = NoFault
    /\ trace = <<"clear", "exists">>
    /\ store = [exists |-> TRUE, docs |-> <<>>]

(***************************************************************************)
(* Claims about the LLM service (checked under SpecLLM).                   *)
(***************************************************************************)
\* C24: after LLMService(backend='auto') is constructed its backend is never
\* 'auto': it is 'ollama' if the Ollama check succeeds (and then the Hugging
\* Face model is not loaded), otherwise 'huggingface' if the Hugging Face
\* model loads, otherwise 'fallback'; the construction never raises.
C24_AutoBackend ==
    ctor.backend = "auto" =>
        /\ ~ctor.raised
        /\ llm_service.backend # "auto"
        /\ llm_service.backend =
              IF ctor.env.ollama_up THEN "ollama"
              ELSE IF ctor.env.hf_loads THEN "huggingface"
              ELSE "fallback"
        /\ ctor.env.ollama_up => ~llm_service.model_loaded
        /\ llm_service.backend = "huggingface" => llm_service.model_loaded

C24_Witness ==
    /\ ctor.backend = "auto"
    /\ ctor.env.ollama_up /\ ctor.env.hf_loads
    /\ llm_service.backend = "ollama"

(***************************************************************************)
(* Claims about the context and the generators.                            *)
(***************************************************************************)
\* the generator was called by the answer being served
GeneratorCalled == call.op = "answer" /\ trace = <<"search", "generate">>

\* the chunks the retrieval of the served answer returned, in rank order
RetrievedChunks ==
    search_similar_chunks(store, call.query, call.n_results, call.fault).documents

\* C25: the context handed to the generator has exactly one line per
\* retrieved chunk, in retrieval order, line i being 'Context i: ' followed
\* by the i-th chunk (i from 1); the number of lines is chunks_used of the
\* result and lies between 1 and n_results.
C25_ContextLines ==
    GeneratorCalled =>
        LET lines == SplitLines(gen.context)
        IN  /\ Len(lines) = Len(RetrievedChunks)
            /\ \A i \in 1..Len(lines) :
                  lines[i] = Str_Context \o IntToStr(i) \o Str_ColonSpace
                                \o RetrievedChunks[i]
            /\ Len(lines) = result.chunks_used
            /\ Len(lines) >= 1
            /\ Len(lines) <= call.n_results

C25_Witness ==
    /\ GeneratorCalled
    /\ result.chunks_used >= 2
    /\ result.chunks_used < call.n_results
    /\ RetrievedChunks[1] # RetrievedChunks[2]

\* the keyword-matching fallback produced the answer of the last activation
FallbackAnswered == gen.outcome # "none" /\ gen.llm.backend = "fallback"

ContextLinesOfGen == SplitLines(gen.context)

\* the positions of the context lines that share a lower-cased,
\* whitespace-delimited word with the question
MatchingLines ==
    {i \in 1..Len(ContextLinesOfGen) :
        \E w \in 1..Len(Words(Lower(gen.question))) :
            \E v \in 1..Len(Words(Lower(ContextLinesOfGen[i]))) :
                Words(Lower(gen.question))[w] = Words(Lower(ContextLinesOfGen[i]))[v]}

\* the first three of them, in context order
KeptLines ==
    SelectSeq([i \in 1..Len(ContextLinesOfGen) |-> i],
              LAMBDA i : /\ i \in MatchingLines
                         /\ Cardinality({j \in MatchingLines : j < i}) < FallbackMaxLines)

QuotedContext ==
    SubSeq(gen.context, 1, Min(FallbackContextChars, Len(gen.context)))

\* C26: _generate_fallback selects exactly the context lines that share a
\* whitespace-delimited, lower-cased word with the question, keeps at most
\* the first 3 in context order and returns 'Based on the resume: ' followed
\* by those lines joined by spaces; when no line matches it returns 'Based on
\* the available information: ', the first 200 characters of the context and
\* '...'.
C26_FallbackLines ==
    FallbackAnswered =>
        gen.answer =
            IF MatchingLines # {}
            THEN Str_BasedOnResume
                    \o Join([k \in 1..Len(KeptLines) |->
                                ContextLinesOfGen[KeptLines[k]]], <<" ">>)
            ELSE Str_BasedOnAvailable \o QuotedContext \o Str_Ellipsis

\* C26 as the code has it: the same, each selected line being stripped of
\* leading and trailing whitespace before the lines are joined.
C26_FallbackStrippedLines ==
    FallbackAnswered =>
        gen.answer =
            IF MatchingLines # {}
            THEN Str_BasedOnResume
                    \o Join([k \in 1..Len(KeptLines) |->
                                Strip(ContextLinesOfGen[KeptLines[k]])], <<" ">>)
            ELSE Str_BasedOnAvailable \o QuotedContext \o Str_Ellipsis

\* more than three lines match, the first ends in a blank
C26_Witness ==
    /\ FallbackAnswered
    /\ Cardinality(MatchingLines) > FallbackMaxLines
    /\ Len(KeptLines) = FallbackMaxLines
    /\ Strip(ContextLinesOfGen[1]) # ContextLinesOfGen[1]

\* no line matches and the context is longer than what is quoted
C26_WitnessTruncated ==
    /\ FallbackAnswered
    /\ MatchingLines = {}
    /\ Len(gen.context) > FallbackContextChars
    /\ Len(gen.answer) = Len(Str_BasedOnAvailable) + FallbackContextChars
                            + Len(Str_Ellipsis)

(***************************************************************************)
(* Claims about the answers enhanced with entities (checked under Spec).   *)
(***************************************************************************)
EntityAnswered == call.op = "answer_entity"

\* the entity extraction is missing (no PDF path, no file), unavailable (no
\* NER service) or failing (the file cannot be read, the extraction fails)
ExtractionGaveNothing ==
    \/ call.pdf = ""
    \/ ~Readable(call.pdf)
    \/ ~entity_call.ner.available
    \/ entity_call.ner.fails

ExtractionInvoked ==
    entity_call.extracted \/ \E i \in 1..Len(trace) : trace[i] = "extract_entities"

\* C27: answer_with_entity_context returns success=True exactly when the
\* underlying RAG answer succeeds; a missing, unavailable or failing entity
\* extraction leaves a successful RAG answer as it is; when the RAG answer
\* fails the extraction is not invoked; and 'enhancement' is 'NER_enhanced'
\* exactly when a non-empty entity context was appended to the answer after
\* '\n\nStructured Information: '.
C27_EntityContextKeepsAnswer ==
    EntityAnswered =>
        /\ result.success = entity_call.rag.success
        /\ (\E i \in 1..Len(trace) : trace[i] = "generate") =>
               entity_call.rag.answer = gen.answer
        /\ ~entity_call.rag.success =>
               (~ExtractionInvoked /\ result = entity_call.rag)
        /\ (entity_call.rag.success /\ ExtractionGaveNothing) =>
               result = entity_call.rag
        /\ result.enhancement = "NER_enhanced" <=>
               /\ entity_call.entity_context # <<>>
               /\ result.answer = entity_call.rag.answer
                                     \o Str_StructuredInformation
                                     \o entity_call.entity_context
        /\ result.enhancement # "NER_enhanced" =>
               result.answer = entity_call.rag.answer

\* the extraction was invoked and failed, the RAG answer is returned
C27_Witness ==
    /\ EntityAnswered
    /\ entity_call.extracted /\ entity_call.ner.fails
    /\ result.success
    /\ result.answer # <<>>
    /\ result = entity_call.rag

\* the answer was enhanced
C27_WitnessEnhanced ==
    /\ EntityAnswered
    /\ result.success
    /\ result.enhancement = "NER_enhanced"
    /\ entity_call.entity_context # <<>>

\* the RAG answer failed
C27_WitnessRagFailed ==
    /\ EntityAnswered
    /\ ~result.success
    /\ store.docs # <<>>

====
